---- MODULE Spec2Model ----
(***************************************************************************)
(* Model of zerver/worker/thumbnail.py: ThumbnailWorker.consume and        *)
(* ensure_thumbnails, run by several queue workers against one             *)
(* ImageAttachment row, a transactional row store with select_for_update,  *)
(* and a non-transactional blob store.                                     *)
(***************************************************************************)
EXTENDS Integers, Sequences, FiniteSets, TLC

\* ------------------------------------------------------------------ bounds
NumWorkers == 2
MaxDeliveries == 3
MaxFailures == 3
NumLiveWorkers == 1

Workers == 1..NumWorkers
NoWorker == 0

\* --------------------------------------------------- the format catalogue
\* THUMBNAIL_OUTPUT_FORMATS of zerver.lib.thumbnail: a fixed, ordered table
\* whose (extension, max_width, max_height, animated) tuples are unique.
Catalogue ==
    << [extension |-> "jpg",  max_width |-> 100, max_height |-> 100,
        animated |-> FALSE, opts |-> "Q=80"],
       [extension |-> "webp", max_width |-> 100, max_height |-> 100,
        animated |-> TRUE,  opts |-> "Q=90"],
       [extension |-> "webp", max_width |-> 100, max_height |-> 100,
        animated |-> FALSE, opts |-> "Q=90"] >>

FrameCounts == {1, 3}

\* The fields of the ImageAttachment row that the upload step filled in.
PathId == "2/ab/img.gif"
OriginalWidthPx == 50
OriginalHeightPx == 200

\* ---------------------------------------------------------- pure helpers
Range(s) == {s[i] : i \in 1..Len(s)}

NoDuplicates(s) == \A i, j \in 1..Len(s) : s[i] = s[j] => i = j

IsPrefix(s, t) == Len(s) <= Len(t) /\ SubSeq(t, 1, Len(s)) = s

RECURSIVE SeqsOver(_, _)
\* every duplicate-free sequence of length n over the set S
SeqsOver(S, n) ==
    IF n = 0 THEN {<< >>}
    ELSE UNION {{Append(s, x) : x \in S \ Range(s)} : s \in SeqsOver(S, n - 1)}

\* The identity of a format: what str(ThumbnailFormat) and
\* StoredThumbnailFormat equality compare.
FormatKey(f) ==
    [extension |-> f.extension, max_width |-> f.max_width,
     max_height |-> f.max_height, animated |-> f.animated]

\* guess_type(f"image.{extension}")[0]
GuessType(extension) ==
    CASE extension = "jpg" -> "image/jpeg"
      [] extension = "webp" -> "image/webp"
      [] OTHER -> "none"

\* get_image_thumbnail_path: a pure function of the row and the format.
GetImageThumbnailPath(path_id, f) == [path_id |-> path_id, format |-> FormatKey(f)]

\* missing_thumbnails: the catalogue, in catalogue order, without the
\* formats that already have an entry in thumbnail_metadata.
MissingThumbnails(thumbnail_metadata) ==
    LET seen == {FormatKey(e) : e \in Range(thumbnail_metadata)}
    IN  SelectSeq(Catalogue, LAMBDA f : FormatKey(f) \notin seen)

\* mutant: "if image_attachment.frames >= 1"
LoadOptsFromOneFrame(frames, f) ==
    IF frames >= 1
    THEN IF f.animated THEN "n=-1" ELSE "n=1"
    ELSE ""

\* load_opts of the resize, from the frame count and the format.
LoadOpts(frames, f) ==
    IF frames > 1
    THEN IF f.animated THEN "n=-1" ELSE "n=1"
    ELSE ""

\* Number of pages the loader hands to the resize.
LoadedPages(frames, load_opts) ==
    IF load_opts = "n=-1" THEN frames ELSE 1

\* rounded a * b / c, at least 1
ScaleDim(a, b, c) ==
    LET r == (2 * a * b + c) \div (2 * c) IN IF r < 1 THEN 1 ELSE r

\* pyvips.Image.thumbnail_buffer(..., size=DOWN): fit within the box,
\* keep the aspect ratio, never scale up.  Pages are stacked vertically.
ThumbnailBuffer(w, h, f, pages) ==
    LET fits == w <= f.max_width /\ h <= f.max_height
        widthBinds == f.max_width * h <= f.max_height * w
        ow == IF fits THEN w
              ELSE IF widthBinds THEN f.max_width
              ELSE ScaleDim(w, f.max_height, h)
        oh == IF fits THEN h
              ELSE IF widthBinds THEN ScaleDim(h, f.max_width, w)
              ELSE f.max_height
    IN  [width |-> ow, height |-> oh * pages, page_height |-> oh]

\* len(resized.write_to_buffer(...)): an abstract size of the encoding.
EncodedSize(resized) == resized.width * resized.height

\* mutant: the animated flag of the format is not copied into the entry
StoredEntryStatic(f, resized) ==
    [extension |-> f.extension,
     content_type |-> GuessType(f.extension),
     max_width |-> f.max_width,
     max_height |-> f.max_height,
     animated |-> FALSE,
     width |-> resized.width,
     height |-> IF f.animated THEN resized.page_height ELSE resized.height,
     byte_size |-> EncodedSize(resized)]

\* mutant: the produced width is stored in place of the format's max_width
StoredEntryActualWidth(f, resized) ==
    [extension |-> f.extension,
     content_type |-> GuessType(f.extension),
     max_width |-> resized.width,
     max_height |-> f.max_height,
     animated |-> f.animated,
     width |-> resized.width,
     height |-> IF f.animated THEN resized.page_height ELSE resized.height,
     byte_size |-> EncodedSize(resized)]

\* asdict(StoredThumbnailFormat(...)) for one produced derivative.
StoredEntry(f, resized) ==
    [extension |-> f.extension,
     content_type |-> GuessType(f.extension),
     max_width |-> f.max_width,
     max_height |-> f.max_height,
     animated |-> f.animated,
     width |-> resized.width,
     height |-> IF f.animated THEN resized.page_height ELSE resized.height,
     byte_size |-> EncodedSize(resized)]

\* The derivative of format f of a source with the given frame count.
Resize(frames, f) ==
    ThumbnailBuffer(OriginalWidthPx, OriginalHeightPx, f,
                    LoadedPages(frames, LoadOpts(frames, f)))

\* mutant: after the first derivative each resize starts from the derivative
\* made before it
ThumbnailSourcePrevious(image_bytes, resized) ==
    IF resized = << >> THEN image_bytes ELSE "thumbnail"

\* image_bytes.getbuffer(): what pyvips.Image.thumbnail_buffer reads, given
\* the in-memory buffer and the formats resized so far in the run
ThumbnailSource(image_bytes, resized) == image_bytes

\* mutant: "if needed_thumbnails is None", never true of a list
NothingNeededIsNone(needed_thumbnails) == FALSE

\* "if not needed_thumbnails: return 0"
NothingNeeded(needed_thumbnails) == needed_thumbnails = << >>

\* mutant: the loop walks needed_thumbnails from its end
ThumbnailFormatAtReversed(needed_thumbnails, i) ==
    needed_thumbnails[Len(needed_thumbnails) - i + 1]

\* the format of the current iteration of "for thumbnail_format in needed"
ThumbnailFormatAt(needed_thumbnails, i) == needed_thumbnails[i]

\* mutant: "except Exception"
IsCaughtAny(error) == TRUE

\* "except pyvips.Error": the only exception class the pipeline catches
IsCaught(error) == error = "pyvips"

\* mutant: the first comparison inverted, so that the row is never deleted
NeverThumbnailedInverted(written_images, thumbnail_metadata) ==
    written_images # 0 /\ Len(thumbnail_metadata) = 0

\* mutant: only the count of this run is looked at
NeverThumbnailedThisRun(written_images, thumbnail_metadata) ==
    written_images = 0

\* "if written_images == 0 and len(thumbnail_metadata) == 0": delete
NeverThumbnailed(written_images, thumbnail_metadata) ==
    written_images = 0 /\ Len(thumbnail_metadata) = 0

\* mutant: a plain get() without select_for_update()
LockNotRequested(holder) == TRUE

\* select_for_update(): the row lock is granted only when no other
\* transaction holds it
LockAvailable(holder) == holder = NoWorker

\* The outcomes an attempt (a resize, an upload) can have: it may fail
\* while fewer than MaxFailures failures have happened.
Outcomes(failed) == IF failed < MaxFailures THEN BOOLEAN ELSE {TRUE}

\* ------------------------------------------------------------------ state
VARIABLES
    db,          \* the committed ImageAttachment row
    lockHolder,  \* the transaction holding the row lock, or NoWorker
    blob,        \* the blob store: the set of thumbnail paths stored
    uploads,     \* history: number of uploads per catalogue index
    abortedUploads, \* history: uploads made by runs that were rolled back
    deliveries,  \* number of events delivered so far
    lastClean,   \* history: the last committed run had no failure
    failures,    \* number of failed resizes, failed uploads and aborts
    lastAbort,   \* history: the last run to end was rolled back
    pc,          \* per worker: position in consume / ensure_thumbnails
    row,         \* per worker: thumbnail_metadata of the in-memory row
    needed,      \* per worker: needed_thumbnails
    idx,         \* per worker: position of the for loop in needed
    written,     \* per worker: written_images
    txn,         \* per worker: the uncommitted write of the transaction
    run          \* per worker: history of the current / last run

vars == <<db, lockHolder, blob, uploads, abortedUploads, deliveries,
          lastClean, failures, lastAbort,
          pc, row, needed, idx, written, txn, run>>

\* the fields of a row other than thumbnail_metadata
OtherFields(r) ==
    [path_id |-> r.path_id,
     original_width_px |-> r.original_width_px,
     original_height_px |-> r.original_height_px,
     frames |-> r.frames]

NoFields ==
    [path_id |-> "", original_width_px |-> 0, original_height_px |-> 0,
     frames |-> 0]

NoRun ==
    [outcome |-> "none", ret |-> -1, pre_meta |-> << >>, pre_blob |-> {},
     row_found |-> "pending", instance |-> NoFields, stored |-> NoFields,
     after_clean |-> FALSE, after_abort |-> FALSE, abort_meta |-> << >>,
     fetched |-> 0, image_bytes |-> "", sources |-> << >>,
     load_opts |-> << >>,
     resized |-> << >>, uploaded |-> << >>, error |-> "none",
     saves |-> 0, deletes |-> 0, post_exists |-> TRUE, post_meta |-> << >>]

CatalogueIndex(f) == CHOOSE i \in 1..Len(Catalogue) : FormatKey(Catalogue[i]) = FormatKey(f)

\* the count of rolled-back uploads after a run that had uploaded the
\* formats of "uploaded" is rolled back
RolledBack(aborted, uploaded) ==
    [i \in 1..Len(Catalogue) |->
        IF FormatKey(Catalogue[i]) \in Range(uploaded)
        THEN aborted[i] + 1 ELSE aborted[i]]

InitialMetadata(frames) ==
    LET entries == {StoredEntry(Catalogue[i], Resize(frames, Catalogue[i])) :
                        i \in 1..Len(Catalogue)}
    IN  UNION {SeqsOver(entries, n) : n \in 0..Len(Catalogue)}

\* The row with the given frame count and thumbnail_metadata m, the
\* derivatives of m in the blob store, no worker running and d events
\* delivered so far.
InitWith(frames, m, d) ==
    /\ db = [exists |-> TRUE, path_id |-> PathId,
             original_width_px |-> OriginalWidthPx,
             original_height_px |-> OriginalHeightPx,
             frames |-> frames, thumbnail_metadata |-> m]
    /\ blob = {GetImageThumbnailPath(PathId, e) : e \in Range(m)}
    /\ uploads = [i \in 1..Len(Catalogue) |->
                    IF FormatKey(Catalogue[i]) \in {FormatKey(e) : e \in Range(m)}
                    THEN 1 ELSE 0]
    /\ abortedUploads = [i \in 1..Len(Catalogue) |-> 0]
    /\ lockHolder = NoWorker
    /\ deliveries = d
    /\ lastClean = FALSE
    /\ failures = 0
    /\ lastAbort = [happened |-> FALSE, meta |-> << >>]
    /\ pc = [w \in Workers |-> "idle"]
    /\ row = [w \in Workers |-> << >>]
    /\ needed = [w \in Workers |-> << >>]
    /\ idx = [w \in Workers |-> 1]
    /\ written = [w \in Workers |-> 0]
    /\ txn = [w \in Workers |-> "none"]
    /\ run = [w \in Workers |-> NoRun]

\* Any frame count and any duplicate-free thumbnail_metadata over the
\* catalogue (the catalogue may have grown since earlier runs).
Init == \E frames \in FrameCounts : \E m \in InitialMetadata(frames) :
            InitWith(frames, m, 0)

\* The row as the upload step creates it: no derivative yet.  Every
\* delivery is a re-delivery.
LiveInit == \E frames \in FrameCounts : InitWith(frames, << >>, MaxDeliveries)

\* ---------------------------------------------------------------- actions
\* consume(event): the dispatch layer delivers an event to a free worker,
\* which opens transaction.atomic().
Consume(w) ==
    /\ pc[w] = "idle"
    /\ deliveries < MaxDeliveries
    /\ deliveries' = deliveries + 1
    /\ pc' = [pc EXCEPT ![w] = "lock"]
    /\ row' = [row EXCEPT ![w] = << >>]
    /\ needed' = [needed EXCEPT ![w] = << >>]
    /\ idx' = [idx EXCEPT ![w] = 1]
    /\ written' = [written EXCEPT ![w] = 0]
    /\ txn' = [txn EXCEPT ![w] = "none"]
    /\ run' = [run EXCEPT ![w] = [NoRun EXCEPT !.outcome = "running"]]
    /\ UNCHANGED <<db, lockHolder, blob, uploads, abortedUploads, lastClean, failures,
                   lastAbort>>

\* mutant: the row is locked but the worker goes on with a blank in-memory
\* object instead of the row that was read
SelectForUpdateBlank(w) ==
    /\ pc[w] = "lock"
    /\ db.exists
    /\ LockAvailable(lockHolder)
    /\ lockHolder' = w
    /\ row' = [row EXCEPT ![w] = << >>]
    /\ run' = [run EXCEPT ![w].row_found = "yes",
                          ![w].instance = OtherFields(db),
                          ![w].stored = OtherFields(db),
                          ![w].pre_meta = db.thumbnail_metadata,
                          ![w].pre_blob = blob,
                          ![w].after_clean = lastClean,
                          ![w].after_abort = lastAbort.happened,
                          ![w].abort_meta = lastAbort.meta]
    /\ pc' = [pc EXCEPT ![w] = "ensure"]
    /\ UNCHANGED <<db, blob, uploads, abortedUploads, deliveries, lastClean,
                   failures, lastAbort, needed, idx, written, txn>>

\* ImageAttachment.objects.select_for_update().get(id=...) finds the row:
\* waits for the row lock, takes it and reads the row.
SelectForUpdate(w) ==
    /\ pc[w] = "lock"
    /\ db.exists
    /\ LockAvailable(lockHolder)
    /\ lockHolder' = w
    /\ row' = [row EXCEPT ![w] = db.thumbnail_metadata]
    /\ run' = [run EXCEPT ![w].row_found = "yes",
                          ![w].instance = OtherFields(db),
                          ![w].stored = OtherFields(db),
                          ![w].pre_meta = db.thumbnail_metadata,
                          ![w].pre_blob = blob,
                          ![w].after_clean = lastClean,
                          ![w].after_abort = lastAbort.happened,
                          ![w].abort_meta = lastAbort.meta]
    /\ pc' = [pc EXCEPT ![w] = "ensure"]
    /\ UNCHANGED <<db, blob, uploads, abortedUploads, deliveries, lastClean, failures, lastAbort, needed, idx,
                   written, txn>>

\* mutant: DoesNotExist is not caught and leaves consume
RowMissingRaises(w) ==
    /\ pc[w] = "lock"
    /\ ~db.exists
    /\ pc' = [pc EXCEPT ![w] = "idle"]
    /\ run' = [run EXCEPT ![w].outcome = "raised",
                          ![w].row_found = "no",
                          ![w].post_exists = FALSE]
    /\ UNCHANGED <<db, lockHolder, blob, uploads, abortedUploads, deliveries,
                   lastClean, failures, lastAbort, row, needed, idx, written,
                   txn>>

\* ... raises ImageAttachment.DoesNotExist: logged, consume returns and the
\* empty transaction commits.
RowMissing(w) ==
    /\ pc[w] = "lock"
    /\ ~db.exists
    /\ pc' = [pc EXCEPT ![w] = "idle"]
    /\ run' = [run EXCEPT ![w].outcome = "notfound",
                          ![w].row_found = "no",
                          ![w].post_exists = FALSE]
    /\ UNCHANGED <<db, lockHolder, blob, uploads, abortedUploads, deliveries, lastClean, failures, lastAbort, row,
                   needed, idx, written, txn>>

\* ensure_thumbnails, lines 41-46: resolve the missing formats; return 0
\* when there are none.
ResolveMissing(w) ==
    /\ pc[w] = "ensure"
    /\ LET n == MissingThumbnails(row[w]) IN
         /\ needed' = [needed EXCEPT ![w] = n]
         /\ IF NothingNeeded(n)
            THEN /\ pc' = [pc EXCEPT ![w] = "commit"]
                 /\ run' = [run EXCEPT ![w].ret = 0]
            ELSE /\ pc' = [pc EXCEPT ![w] = "fetch"]
                 /\ run' = run
    /\ written' = [written EXCEPT ![w] = 0]
    /\ idx' = [idx EXCEPT ![w] = 1]
    /\ UNCHANGED <<db, lockHolder, blob, uploads, abortedUploads, deliveries, lastClean, failures, lastAbort, row,
                   txn>>

\* save_attachment_contents(path_id, image_bytes): fetch the original.
FetchOriginal(w) ==
    /\ pc[w] = "fetch"
    /\ run' = [run EXCEPT ![w].fetched = @ + 1, ![w].image_bytes = run[w].instance.path_id]
    /\ pc' = [pc EXCEPT ![w] = "resize"]
    /\ UNCHANGED <<db, lockHolder, blob, uploads, abortedUploads, deliveries, lastClean, failures, lastAbort, row,
                   needed, idx, written, txn>>

\* Top of the for loop: the next format is resized and encoded from the
\* in-memory original, or pyvips raises; after the last format the loop
\* ends and the row is saved.
ResizeNext(w) ==
    /\ pc[w] = "resize"
    /\ idx[w] <= Len(needed[w])
    /\ LET f == ThumbnailFormatAt(needed[w], idx[w]) IN
       \E ok \in Outcomes(failures) :
         IF ok
         THEN /\ run' = [run EXCEPT
                    ![w].resized = Append(@, FormatKey(f)),
                    ![w].sources = Append(@, ThumbnailSource(run[w].image_bytes,
                                                            run[w].resized)),
                    ![w].load_opts = Append(@, LoadOpts(run[w].instance.frames, f))]
              /\ pc' = [pc EXCEPT ![w] = "upload"]
              /\ UNCHANGED failures
         ELSE /\ run' = [run EXCEPT
                    ![w].sources = Append(@, ThumbnailSource(run[w].image_bytes,
                                                            run[w].resized)),
                    ![w].error = "pyvips"]
              /\ pc' = [pc EXCEPT ![w] = "raise"]
              /\ failures' = failures + 1
    /\ UNCHANGED <<db, lockHolder, blob, uploads, abortedUploads, deliveries,
                   lastClean, lastAbort, row, needed, idx, written, txn>>

\* mutant: an error of the storage backend is logged and ignored, and the
\* loop goes on to record the derivative
UploadIgnoringFailure(w) ==
    /\ pc[w] = "upload"
    /\ LET f == ThumbnailFormatAt(needed[w], idx[w]) IN
       \E ok \in Outcomes(failures) :
         IF ok
         THEN /\ blob' = blob \cup {GetImageThumbnailPath(run[w].instance.path_id, f)}
              /\ uploads' = [uploads EXCEPT ![CatalogueIndex(f)] = @ + 1]
              /\ run' = [run EXCEPT ![w].uploaded = Append(@, FormatKey(f))]
              /\ pc' = [pc EXCEPT ![w] = "append"]
              /\ UNCHANGED failures
         ELSE /\ pc' = [pc EXCEPT ![w] = "append"]
              /\ failures' = failures + 1
              /\ UNCHANGED <<blob, uploads, run>>
    /\ UNCHANGED <<db, lockHolder, abortedUploads, deliveries, lastClean,
                   lastAbort, row, needed, idx, written, txn>>

\* upload_backend.upload_message_attachment(...): stores the bytes, or
\* raises an error of the storage backend.
Upload(w) ==
    /\ pc[w] = "upload"
    /\ LET f == ThumbnailFormatAt(needed[w], idx[w]) IN
       \E ok \in Outcomes(failures) :
         IF ok
         THEN /\ blob' = blob \cup {GetImageThumbnailPath(run[w].instance.path_id, f)}
              /\ uploads' = [uploads EXCEPT ![CatalogueIndex(f)] = @ + 1]
              /\ run' = [run EXCEPT ![w].uploaded = Append(@, FormatKey(f))]
              /\ pc' = [pc EXCEPT ![w] = "append"]
              /\ UNCHANGED failures
         ELSE /\ run' = [run EXCEPT ![w].error = "upload"]
              /\ pc' = [pc EXCEPT ![w] = "raise"]
              /\ failures' = failures + 1
              /\ UNCHANGED <<blob, uploads>>
    /\ UNCHANGED <<db, lockHolder, abortedUploads, deliveries, lastClean,
                   lastAbort, row, needed, idx, written, txn>>

\* mutant: the new entry is put at the head of the list
AppendMetadataPrepend(w) ==
    /\ pc[w] = "append"
    /\ LET f == ThumbnailFormatAt(needed[w], idx[w]) IN
         row' = [row EXCEPT ![w] = <<StoredEntry(f, Resize(run[w].instance.frames, f))>> \o @]
    /\ written' = [written EXCEPT ![w] = @ + 1]
    /\ idx' = [idx EXCEPT ![w] = @ + 1]
    /\ pc' = [pc EXCEPT ![w] = "resize"]
    /\ UNCHANGED <<db, lockHolder, blob, uploads, abortedUploads, deliveries, lastClean, failures, lastAbort,
                   needed, txn, run>>

\* mutant: the row is saved after every format instead of once after the loop
AppendMetadataAndSave(w) ==
    /\ pc[w] = "append"
    /\ LET f == ThumbnailFormatAt(needed[w], idx[w]) IN
         row' = [row EXCEPT ![w] = Append(@, StoredEntry(f, Resize(run[w].instance.frames, f)))]
    /\ written' = [written EXCEPT ![w] = @ + 1]
    /\ idx' = [idx EXCEPT ![w] = @ + 1]
    /\ txn' = [txn EXCEPT ![w] = "save"]
    /\ run' = [run EXCEPT ![w].saves = @ + 1]
    /\ pc' = [pc EXCEPT ![w] = "resize"]
    /\ UNCHANGED <<db, lockHolder, blob, uploads, abortedUploads, deliveries, lastClean, failures, lastAbort,
                   needed>>

\* thumbnail_metadata.append(asdict(StoredThumbnailFormat(...)));
\* written_images += 1.  resized.get("page-height") is taken to succeed.
AppendMetadata(w) ==
    /\ pc[w] = "append"
    /\ LET f == ThumbnailFormatAt(needed[w], idx[w]) IN
         row' = [row EXCEPT ![w] = Append(@, StoredEntry(f, Resize(run[w].instance.frames, f)))]
    /\ written' = [written EXCEPT ![w] = @ + 1]
    /\ idx' = [idx EXCEPT ![w] = @ + 1]
    /\ pc' = [pc EXCEPT ![w] = "resize"]
    /\ UNCHANGED <<db, lockHolder, blob, uploads, abortedUploads, deliveries, lastClean, failures, lastAbort,
                   needed, txn, run>>

\* mutant: the row lock is given back only where the transaction block is
\* left normally, so an exception that propagates leaves it held
HandleErrorKeepsLock(w) ==
    /\ pc[w] = "raise"
    /\ IF IsCaught(run[w].error)
       THEN /\ IF NeverThumbnailed(written[w], row[w])
               THEN /\ txn' = [txn EXCEPT ![w] = "delete"]
                    /\ run' = [run EXCEPT ![w].deletes = @ + 1, ![w].ret = 0]
                    /\ pc' = [pc EXCEPT ![w] = "commit"]
               ELSE /\ pc' = [pc EXCEPT ![w] = "save"]
                    /\ UNCHANGED <<txn, run>>
            /\ UNCHANGED <<lockHolder, abortedUploads, lastAbort>>
       ELSE /\ txn' = [txn EXCEPT ![w] = "none"]
            /\ UNCHANGED lockHolder
            /\ abortedUploads' = RolledBack(abortedUploads, run[w].uploaded)
            /\ lastAbort' = [happened |-> TRUE, meta |-> db.thumbnail_metadata]
            /\ run' = [run EXCEPT ![w].outcome = "raised",
                                  ![w].post_exists = db.exists,
                                  ![w].post_meta = db.thumbnail_metadata]
            /\ pc' = [pc EXCEPT ![w] = "idle"]
    /\ UNCHANGED <<db, blob, uploads, deliveries, lastClean, failures, row,
                   needed, idx, written>>

\* An exception left the for loop.  pyvips.Error is caught: the row is
\* deleted when nothing was ever thumbnailed, else control falls through to
\* the save.  Any other exception leaves ensure_thumbnails and consume, and
\* transaction.atomic() rolls back.
HandleError(w) ==
    /\ pc[w] = "raise"
    /\ IF IsCaught(run[w].error)
       THEN /\ IF NeverThumbnailed(written[w], row[w])
               THEN /\ txn' = [txn EXCEPT ![w] = "delete"]
                    /\ run' = [run EXCEPT ![w].deletes = @ + 1, ![w].ret = 0]
                    /\ pc' = [pc EXCEPT ![w] = "commit"]
               ELSE /\ pc' = [pc EXCEPT ![w] = "save"]
                    /\ UNCHANGED <<txn, run>>
            /\ UNCHANGED <<lockHolder, abortedUploads, lastAbort>>
       ELSE /\ txn' = [txn EXCEPT ![w] = "none"]
            /\ lockHolder' = NoWorker
            /\ abortedUploads' = RolledBack(abortedUploads, run[w].uploaded)
            /\ lastAbort' = [happened |-> TRUE, meta |-> db.thumbnail_metadata]
            /\ run' = [run EXCEPT ![w].outcome = "raised",
                                  ![w].post_exists = db.exists,
                                  ![w].post_meta = db.thumbnail_metadata]
            /\ pc' = [pc EXCEPT ![w] = "idle"]
    /\ UNCHANGED <<db, blob, uploads, deliveries, lastClean, failures, row,
                   needed, idx, written>>

\* The for loop ended normally.
LoopDone(w) ==
    /\ pc[w] = "resize"
    /\ idx[w] > Len(needed[w])
    /\ pc' = [pc EXCEPT ![w] = "save"]
    /\ UNCHANGED <<db, lockHolder, blob, uploads, abortedUploads, deliveries, lastClean, failures, lastAbort, row,
                   needed, idx, written, txn, run>>

\* mutant: "return len(needed_thumbnails)"
SaveReturnsNeeded(w) ==
    /\ pc[w] = "save"
    /\ txn' = [txn EXCEPT ![w] = "save"]
    /\ run' = [run EXCEPT ![w].saves = @ + 1, ![w].ret = Len(needed[w])]
    /\ pc' = [pc EXCEPT ![w] = "commit"]
    /\ UNCHANGED <<db, lockHolder, blob, uploads, abortedUploads, deliveries, lastClean, failures, lastAbort, row,
                   needed, idx, written>>

\* image_attachment.save(update_fields=["thumbnail_metadata"]);
\* return written_images
Save(w) ==
    /\ pc[w] = "save"
    /\ txn' = [txn EXCEPT ![w] = "save"]
    /\ run' = [run EXCEPT ![w].saves = @ + 1, ![w].ret = written[w]]
    /\ pc' = [pc EXCEPT ![w] = "commit"]
    /\ UNCHANGED <<db, lockHolder, blob, uploads, abortedUploads, deliveries, lastClean, failures, lastAbort, row,
                   needed, idx, written>>

\* mutant: save() without update_fields writes every field of the instance
SaveRowAllFields(stored, instance, thumbnail_metadata) ==
    [exists |-> stored.exists,
     path_id |-> instance.path_id,
     original_width_px |-> instance.original_width_px,
     original_height_px |-> instance.original_height_px,
     frames |-> instance.frames,
     thumbnail_metadata |-> thumbnail_metadata]

\* save(update_fields=["thumbnail_metadata"]): the stored row after the
\* save of an instance with the given fields and thumbnail_metadata
SaveRow(stored, instance, thumbnail_metadata) ==
    [stored EXCEPT !.thumbnail_metadata = thumbnail_metadata]

\* Leaving transaction.atomic() normally: the write of the transaction is
\* committed and the row lock released; consume logs the count.
Commit(w) ==
    /\ pc[w] = "commit"
    /\ db' = CASE txn[w] = "save" -> SaveRow(db, run[w].instance, row[w])
               [] txn[w] = "delete" -> [db EXCEPT !.exists = FALSE]
               [] OTHER -> db
    /\ lockHolder' = NoWorker
    /\ lastClean' = (run[w].error = "none")
    /\ lastAbort' = [happened |-> FALSE, meta |-> << >>]
    /\ txn' = [txn EXCEPT ![w] = "none"]
    /\ run' = [run EXCEPT ![w].outcome = "returned",
                          ![w].post_exists = db'.exists,
                          ![w].post_meta = db'.thumbnail_metadata]
    /\ pc' = [pc EXCEPT ![w] = "idle"]
    /\ UNCHANGED <<blob, uploads, abortedUploads, deliveries, failures, row,
                   needed, idx, written>>

\* the worker is between the locked read and the end of its transaction
Locked(w) == pc[w] \in {"ensure", "fetch", "resize", "upload", "append",
                        "raise", "save", "commit"}

\* The worker process dies inside transaction.atomic(): the connection is
\* closed, the transaction rolls back and the row lock is released.
ProcessAbort(w) ==
    /\ Locked(w)
    /\ failures < MaxFailures
    /\ failures' = failures + 1
    /\ txn' = [txn EXCEPT ![w] = "none"]
    /\ lockHolder' = NoWorker
    /\ abortedUploads' = RolledBack(abortedUploads, run[w].uploaded)
    /\ lastAbort' = [happened |-> TRUE, meta |-> db.thumbnail_metadata]
    /\ run' = [run EXCEPT ![w].outcome = "aborted",
                          ![w].post_exists = db.exists,
                          ![w].post_meta = db.thumbnail_metadata]
    /\ pc' = [pc EXCEPT ![w] = "idle"]
    /\ UNCHANGED <<db, blob, uploads, deliveries, lastClean, row, needed, idx,
                   written>>

Next ==
    \E w \in Workers :
        \/ Consume(w)
        \/ SelectForUpdate(w)
        \/ RowMissing(w)
        \/ ResolveMissing(w)
        \/ FetchOriginal(w)
        \/ ResizeNext(w)
        \/ Upload(w)
        \/ AppendMetadata(w)
        \/ HandleError(w)
        \/ LoopDone(w)
        \/ Save(w)
        \/ Commit(w)

Spec == Init /\ [][Next]_vars

\* The dispatch layer re-delivers the event once more, after the deliveries
\* that are counted: the same step as Consume.
Redeliver(w) ==
    /\ pc[w] = "idle"
    /\ deliveries = MaxDeliveries
    /\ pc' = [pc EXCEPT ![w] = "lock"]
    /\ row' = [row EXCEPT ![w] = << >>]
    /\ needed' = [needed EXCEPT ![w] = << >>]
    /\ idx' = [idx EXCEPT ![w] = 1]
    /\ written' = [written EXCEPT ![w] = 0]
    /\ txn' = [txn EXCEPT ![w] = "none"]
    /\ run' = [run EXCEPT ![w] = [NoRun EXCEPT !.outcome = "running"]]
    /\ UNCHANGED <<db, lockHolder, blob, uploads, abortedUploads, deliveries,
                   lastClean, failures, lastAbort>>

\* the steps a worker takes by itself once an event was delivered to it
Progress(w) ==
    \/ SelectForUpdate(w)
    \/ RowMissing(w)
    \/ ResolveMissing(w)
    \/ FetchOriginal(w)
    \/ ResizeNext(w)
    \/ Upload(w)
    \/ AppendMetadata(w)
    \/ HandleError(w)
    \/ LoopDone(w)
    \/ Save(w)
    \/ Commit(w)

\* the workers that consume the queue under LiveSpec
LiveWorkers == {w \in Workers : w <= NumLiveWorkers}

LiveNext ==
    \E w \in LiveWorkers :
        \/ Redeliver(w)
        \/ ProcessAbort(w)
        \/ Progress(w)

\* Events keep being re-delivered, a worker that got one keeps running, and
\* at most MaxFailures attempts fail.
LiveSpec ==
    /\ LiveInit
    /\ [][LiveNext]_vars
    /\ \A w \in LiveWorkers : WF_vars(Redeliver(w))
    /\ \A w \in LiveWorkers : WF_vars(Progress(w))

\* ------------------------------------------------------------ type check
TypeOK ==
    /\ lockHolder \in Workers \cup {NoWorker}
    /\ deliveries \in 0..MaxDeliveries
    /\ \A w \in Workers : written[w] \in 0..Len(Catalogue)

\* the format identities of the entries of a metadata sequence, in order
KeysOf(meta) == [i \in 1..Len(meta) |-> FormatKey(meta[i])]

Finished(w) == run[w].outcome \in {"returned", "notfound", "raised"}

\* ------------------------------------------------------------------ claims

\* C1: a run that locks the row right after a committed run that had no
\* failure performs no fetch, no resize, no upload, no save and no delete,
\* leaves the row and the blob store as it found them, and returns 0.
C1_Idempotence ==
    \A w \in Workers :
        run[w].after_clean =>
            /\ run[w].fetched = 0
            /\ run[w].resized = << >>
            /\ run[w].uploaded = << >>
            /\ run[w].saves = 0
            /\ run[w].deletes = 0
            /\ txn[w] = "none"
            /\ blob = run[w].pre_blob
            /\ db.exists
            /\ db.thumbnail_metadata = run[w].pre_meta
            /\ Finished(w) =>
                 /\ run[w].outcome = "returned"
                 /\ run[w].ret = 0
                 /\ run[w].post_exists
                 /\ run[w].post_meta = run[w].pre_meta

\* a second run returned after a first, failure-free run that wrote
\* thumbnails
C1_Witness ==
    \E w, v \in Workers :
        /\ w # v
        /\ run[v].outcome = "returned" /\ run[v].error = "none"
        /\ run[v].ret > 0
        /\ run[w].after_clean /\ run[w].outcome = "returned"
        /\ run[w].pre_meta = run[v].post_meta

\* C2: after a run that returned and in which no resize, encode or upload
\* failed, the row exists and missing_thumbnails of the persisted
\* thumbnail_metadata is empty.
C2_Completeness ==
    \A w \in Workers :
        (run[w].outcome = "returned" /\ run[w].error = "none") =>
            /\ run[w].post_exists
            /\ MissingThumbnails(run[w].post_meta) = << >>
            /\ \A i \in 1..Len(Catalogue) :
                 FormatKey(Catalogue[i]) \in Range(KeysOf(run[w].post_meta))

\* a failure-free run that started from incomplete metadata and wrote
\* more than one format
C2_Witness ==
    \E w \in Workers :
        /\ run[w].outcome = "returned" /\ run[w].error = "none"
        /\ MissingThumbnails(run[w].pre_meta) # << >>
        /\ run[w].ret > 1

\* C3: a run that read empty thumbnail_metadata and whose first resize
\* raised pyvips.Error ends by returning 0 with the row deleted, without
\* any upload and without any save.
C3_DeletionPolicy ==
    \A w \in Workers :
        (run[w].error = "pyvips" /\ run[w].pre_meta = << >>
            /\ run[w].resized = << >>) =>
            /\ run[w].uploaded = << >>
            /\ run[w].saves = 0
            /\ txn[w] \in {"none", "delete"}
            /\ Finished(w) =>
                 /\ run[w].outcome = "returned"
                 /\ run[w].ret = 0
                 /\ run[w].deletes = 1
                 /\ ~run[w].post_exists

C3_Witness ==
    \E w \in Workers :
        /\ run[w].error = "pyvips" /\ run[w].pre_meta = << >>
        /\ run[w].resized = << >>
        /\ run[w].fetched = 1
        /\ run[w].outcome = "returned"
        /\ ~db.exists

\* C4: a run in which a resize raised pyvips.Error, and which either read
\* non-empty thumbnail_metadata or had written a derivative before the
\* failure, returns normally with the row kept; the persisted metadata is
\* the metadata read followed by the entries of the formats written, in
\* order, and the return value is the number of formats written.
C4_PartialRetention ==
    \A w \in Workers :
        (run[w].error = "pyvips"
            /\ (run[w].pre_meta # << >> \/ run[w].uploaded # << >>)) =>
            /\ run[w].deletes = 0
            /\ txn[w] # "delete"
            /\ Finished(w) =>
                 /\ run[w].outcome = "returned"
                 /\ run[w].post_exists
                 /\ run[w].saves = 1
                 /\ IsPrefix(run[w].pre_meta, run[w].post_meta)
                 /\ KeysOf(run[w].post_meta)
                        = KeysOf(run[w].pre_meta) \o run[w].uploaded
                 /\ run[w].ret = Len(run[w].uploaded)

\* a decode failure after one format was written on an empty row
C4_Witness ==
    \E w \in Workers :
        /\ run[w].error = "pyvips" /\ run[w].outcome = "returned"
        /\ run[w].pre_meta = << >>
        /\ Len(run[w].uploaded) = 1
        /\ Len(db.thumbnail_metadata) = 1

\* C5: when an upload fails the exception leaves ensure_thumbnails and
\* consume; nothing is saved or deleted and the persisted row after the
\* run is the row before it, also when earlier formats were uploaded.
C5_UploadFailureAborts ==
    \A w \in Workers :
        run[w].error = "upload" =>
            /\ run[w].saves = 0
            /\ run[w].deletes = 0
            /\ txn[w] = "none"
            /\ pc[w] \in {"raise", "idle"}
            /\ Finished(w) =>
                 /\ run[w].outcome = "raised"
                 /\ run[w].ret = -1
                 /\ run[w].post_exists
                 /\ run[w].post_meta = run[w].pre_meta

\* an upload failed after an earlier format of the run was uploaded
C5_Witness ==
    \E w \in Workers :
        /\ run[w].error = "upload" /\ run[w].outcome = "raised"
        /\ Len(run[w].uploaded) >= 1
        /\ db.thumbnail_metadata = run[w].pre_meta

\* C6: at most one worker is between taking the row lock and the end of
\* its transaction; while it is there nobody else changes the row, what it
\* commits extends what it read, and the persisted thumbnail_metadata never
\* has two entries for one catalogue format.
C6_SingleWriter ==
    /\ Cardinality({w \in Workers : Locked(w)}) <= 1
    /\ \A w \in Workers :
         Locked(w) =>
            /\ lockHolder = w
            /\ db.exists
            /\ db.thumbnail_metadata = run[w].pre_meta
    /\ \A w \in Workers :
         (run[w].outcome = "returned" /\ run[w].post_exists) =>
            IsPrefix(run[w].pre_meta, run[w].post_meta)
    /\ NoDuplicates(KeysOf(db.thumbnail_metadata))

\* one worker waits for the row lock while another, holding it, has
\* appended an entry
C6_Witness ==
    \E w, v \in Workers :
        /\ w # v
        /\ Locked(w) /\ written[w] >= 1
        /\ pc[v] = "lock"

C8_DeleteIffNeverProduced ==
    /\ ~db.exists => \A i \in 1..Len(Catalogue) : uploads[i] = 0
    /\ \A w \in Workers :
         (run[w].outcome = "returned" /\ run[w].error = "pyvips"
             /\ \A i \in 1..Len(Catalogue) : uploads[i] = 0) =>
            ~run[w].post_exists

\* What the delete test of line 114 does guarantee (C8): a run deletes the
\* row exactly when a resize fails, the thumbnail_metadata it read under the
\* lock is empty and it has written no derivative before the failure; a row
\* with persisted derivatives is never deleted.  Derivatives uploaded by
\* rolled-back runs are not seen by the test.
C8_DeleteIffNothingPersisted ==
    /\ \A w \in Workers :
         run[w].outcome = "returned" =>
            /\ (run[w].deletes = 1) <=>
                  (run[w].error = "pyvips" /\ run[w].pre_meta = << >>
                      /\ run[w].uploaded = << >>)
            /\ run[w].post_exists <=> (run[w].deletes = 0)
    /\ \A w \in Workers : run[w].outcome = "raised" => run[w].deletes = 0
    /\ ~db.exists => db.thumbnail_metadata = << >>

\* the case of C8: a row was deleted although an earlier, rolled-back run
\* had uploaded a derivative of it
C8_Witness ==
    \E w \in Workers :
        /\ run[w].outcome = "returned" /\ run[w].deletes = 1
        /\ ~db.exists
        /\ \E i \in 1..Len(Catalogue) : abortedUploads[i] >= 1

\* catalogue order filtered by "no entry in this metadata"
FilteredCatalogue(meta) ==
    SelectSeq(KeysOf(Catalogue), LAMBDA k : k \notin Range(KeysOf(meta)))

\* C9: the formats a run resizes, and those it uploads, are a prefix of the
\* catalogue filtered by "not present in the metadata read", in catalogue
\* order; the whole of it when the run ends without failure; nothing is
\* resized or uploaded after a decode failure; the entries appended to
\* thumbnail_metadata follow the same order.
C9_OrderDeterminism ==
    \A w \in Workers :
        LET r == run[w]
            filtered == FilteredCatalogue(r.pre_meta)
        IN  r.row_found = "yes" =>
              /\ IsPrefix(r.resized, filtered)
              /\ IsPrefix(r.uploaded, r.resized)
              /\ Len(r.resized) - Len(r.uploaded) <= 1
              /\ (r.outcome = "returned" /\ r.error = "none") =>
                    (r.resized = filtered /\ r.uploaded = filtered)
              /\ r.error = "pyvips" =>
                    (r.uploaded = r.resized
                       /\ pc[w] \notin {"resize", "upload", "append"})
              /\ (r.outcome = "returned" /\ r.post_exists) =>
                    KeysOf(r.post_meta) = KeysOf(r.pre_meta) \o r.uploaded
              /\ pc[w] \in {"resize", "raise", "save", "commit"} =>
                    KeysOf(row[w]) = KeysOf(r.pre_meta) \o r.uploaded

\* a run that started from metadata holding only the second catalogue
\* format, wrote the first format and then failed to decode for the third
C9_Witness ==
    \E w \in Workers :
        /\ run[w].outcome = "returned" /\ run[w].error = "pyvips"
        /\ KeysOf(run[w].pre_meta) = << FormatKey(Catalogue[2]) >>
        /\ run[w].uploaded = << FormatKey(Catalogue[1]) >>
        /\ KeysOf(db.thumbnail_metadata)
              = << FormatKey(Catalogue[2]), FormatKey(Catalogue[1]) >>

\* C10: when the row does not exist at the locked read, consume ends
\* normally: no exception, ensure_thumbnails is not called, and nothing is
\* fetched, uploaded, saved or deleted.
C10_BenignRace ==
    \A w \in Workers :
        run[w].row_found = "no" =>
            /\ run[w].outcome = "notfound"
            /\ pc[w] = "idle"
            /\ lockHolder # w
            /\ run[w].ret = -1
            /\ run[w].fetched = 0
            /\ run[w].resized = << >>
            /\ run[w].uploaded = << >>
            /\ run[w].saves = 0
            /\ run[w].deletes = 0
            /\ txn[w] = "none"
            /\ ~db.exists

\* a delivery found the row gone after another worker's run deleted it
C10_Witness ==
    \E w, v \in Workers :
        /\ w # v
        /\ run[v].outcome = "returned" /\ run[v].deletes = 1
        /\ run[w].row_found = "no" /\ run[w].outcome = "notfound"

\* every catalogue format has an entry in the persisted thumbnail_metadata
Complete == db.exists /\ MissingThumbnails(db.thumbnail_metadata) = << >>

\* A run that locks the row right after a rolled-back run reads the
\* metadata that was persisted when that run was rolled back, needs exactly
\* the catalogue formats absent from it and produces no other format.
SafeRedelivery ==
    \A w \in Workers :
        (run[w].after_abort /\ run[w].row_found = "yes") =>
            /\ run[w].pre_meta = run[w].abort_meta
            /\ (Locked(w) /\ pc[w] # "ensure") =>
                 KeysOf(needed[w]) = FilteredCatalogue(run[w].abort_meta)
            /\ Range(run[w].resized)
                 \subseteq Range(FilteredCatalogue(run[w].abort_meta))
            /\ Range(run[w].uploaded)
                 \cap Range(KeysOf(run[w].abort_meta)) = {}

\* C11 as stated: re-delivery after a rolled-back run is safe, and once
\* failures have stopped and events keep being re-delivered every catalogue
\* format is eventually present in the persisted thumbnail_metadata.
C11_EventuallyComplete == []SafeRedelivery /\ <>Complete

\* C11 amended: re-delivery after a rolled-back run is safe, and once
\* failures have stopped and events keep being re-delivered, eventually
\* either every catalogue format is present in the persisted
\* thumbnail_metadata or the row has been deleted by a decode failure.
C11_EventuallyCompleteOrDeleted ==
    []SafeRedelivery /\ <>(Complete \/ ~db.exists)

\* a run that followed a rolled-back run wrote the formats that were
\* missing and left the metadata complete
C11_Witness ==
    \E w \in Workers :
        /\ run[w].after_abort /\ run[w].outcome = "returned"
        /\ run[w].error = "none" /\ run[w].ret > 0
        /\ run[w].pre_meta = run[w].abort_meta
        /\ Complete

\* the format identities of the entries the run of w has appended to the
\* in-memory thumbnail_metadata so far
Appended(w) ==
    SubSeq(KeysOf(row[w]), Len(run[w].pre_meta) + 1, Len(row[w]))

\* C12: every entry of the persisted thumbnail_metadata has its blob in the
\* store at the path of its format, and so has every entry of a running
\* worker's in-memory thumbnail_metadata; the entries a run has appended are
\* a prefix of the formats it has uploaded, so that the upload of a format
\* comes before the append of its entry.
C12_PersistedHasBytes ==
    /\ \A e \in Range(db.thumbnail_metadata) :
         GetImageThumbnailPath(db.path_id, e) \in blob
    /\ \A w \in Workers :
         Locked(w) =>
            /\ \A e \in Range(row[w]) :
                 GetImageThumbnailPath(db.path_id, e) \in blob
            /\ IsPrefix(Appended(w), run[w].uploaded)
            /\ pc[w] = "append" =>
                 Len(run[w].uploaded) = Len(Appended(w)) + 1

\* a run on an empty row has committed two entries, both with their blob
C12_Witness ==
    \E w \in Workers :
        /\ run[w].outcome = "returned" /\ run[w].pre_meta = << >>
        /\ Len(run[w].uploaded) >= 2
        /\ db.thumbnail_metadata = run[w].post_meta
        /\ Len(db.thumbnail_metadata) >= 2
        /\ Cardinality(blob) >= 2

\* C13: the row lock is held by a worker at every step from its locked read
\* to the end of its transaction (fetch, resizes, uploads, the save or the
\* delete), and a worker that has left consume by any path (normal return,
\* row not found, decode failure handled, upload failure propagated) does
\* not hold it; the lock is never held by a worker that is not running.
C13_LockReleasedOnEveryExit ==
    /\ \A w \in Workers : Locked(w) => lockHolder = w
    /\ \A w \in Workers : ~Locked(w) => lockHolder # w
    /\ \A w \in Workers : Finished(w) => lockHolder # w
    /\ lockHolder # NoWorker => Locked(lockHolder)

\* a worker left consume by a propagated upload failure and another worker
\* has since taken the lock and is about to commit after a decode failure
C13_Witness ==
    \E w, v \in Workers :
        /\ w # v
        /\ run[w].outcome = "raised" /\ run[w].error = "upload"
        /\ pc[w] = "idle"
        /\ lockHolder = v /\ pc[v] = "commit" /\ run[v].error = "pyvips"

\* the for loop of the run of w is over: it ran to its end or an exception
\* left it
LoopEnded(w) == idx[w] > Len(needed[w]) \/ run[w].error # "none"

\* C14: a run issues at most one write to the row, a save or a delete and
\* never both, and only after its loop over the formats has ended; while the
\* loop runs no write is pending and the stored row is as the run read it.
C14_SingleCommitAtEnd ==
    \A w \in Workers :
        /\ run[w].saves + run[w].deletes <= 1
        /\ txn[w] # "none" => pc[w] = "commit" /\ LoopEnded(w)
        /\ (txn[w] = "save") = (pc[w] = "commit" /\ run[w].saves = 1)
        /\ (txn[w] = "delete") = (pc[w] = "commit" /\ run[w].deletes = 1)
        /\ pc[w] \in {"ensure", "fetch", "resize", "upload", "append",
                      "raise", "save"} =>
              /\ run[w].saves = 0 /\ run[w].deletes = 0
              /\ db.exists /\ db.thumbnail_metadata = run[w].pre_meta
        /\ Finished(w) /\ run[w].outcome = "returned" /\ run[w].saves = 0
             /\ run[w].deletes = 0 => run[w].post_meta = run[w].pre_meta

\* a run that wrote three formats has returned after exactly one save
C14_Witness ==
    \E w \in Workers :
        /\ run[w].outcome = "returned"
        /\ Len(run[w].uploaded) = 3
        /\ run[w].saves = 1 /\ run[w].deletes = 0
        /\ Len(run[w].post_meta) = Len(run[w].pre_meta) + 3

\* C15: the entries that were in thumbnail_metadata when a run read the row
\* stay, unchanged and in their order, at the head of the run's in-memory
\* list at every step, and at the head of the stored list whenever the run
\* has ended and the row still exists.
C15_AppendOnly ==
    \A w \in Workers :
        /\ Locked(w) => IsPrefix(run[w].pre_meta, row[w])
        /\ (Finished(w) /\ run[w].row_found = "yes" /\ run[w].post_exists) =>
              IsPrefix(run[w].pre_meta, run[w].post_meta)
        /\ (run[w].outcome = "returned" /\ run[w].saves = 1) =>
              /\ run[w].post_meta = row[w]
              /\ Len(run[w].post_meta) = Len(run[w].pre_meta) + run[w].ret

\* a run that found entries in the row has saved it with more entries
C15_Witness ==
    \E w \in Workers :
        /\ run[w].outcome = "returned" /\ run[w].saves = 1
        /\ run[w].pre_meta # << >>
        /\ Len(run[w].post_meta) > Len(run[w].pre_meta)
        /\ db.thumbnail_metadata = run[w].post_meta

\* C16: a run with formats to make fetches the original exactly once, after
\* resolving the missing formats and before its first resize, however the
\* run goes on; a run with nothing to make fetches nothing; and every resize
\* of the run, failed or not, reads the fetched original.
C16_FetchOnce ==
    \A w \in Workers :
        /\ run[w].fetched <= 1
        /\ pc[w] \in {"ensure", "fetch"} =>
              run[w].fetched = 0 /\ run[w].sources = << >>
        /\ pc[w] \in {"resize", "upload", "append", "raise", "save"} =>
              run[w].fetched = 1
        /\ (Finished(w) /\ run[w].row_found = "yes") =>
              run[w].fetched = (IF needed[w] = << >> THEN 0 ELSE 1)
        /\ run[w].sources # << >> =>
              run[w].fetched = 1 /\ run[w].image_bytes = db.path_id
        /\ \A i \in 1..Len(run[w].sources) : run[w].sources[i] = db.path_id
        /\ Len(run[w].resized) <= Len(run[w].sources)
        /\ Len(run[w].sources) <= Len(run[w].resized) + 1

\* a run fetched once and failed in its second resize, and another run
\* resized the two formats left from one fetch
C16_Witness ==
    \E w, v \in Workers :
        /\ run[w].outcome = "returned" /\ Len(run[w].resized) = 2
        /\ run[w].fetched = 1 /\ Len(run[w].sources) = 2
        /\ Finished(v) /\ run[v].error = "pyvips"
        /\ Len(run[v].resized) = 1 /\ Len(run[v].sources) = 2
        /\ run[v].fetched = 1

\* the frame-load mode that goes with a frame count and an animated flag
FrameLoadMode(frames, animated) ==
    CASE frames <= 1 -> ""
      [] frames > 1 /\ animated -> "n=-1"
      [] frames > 1 /\ ~animated -> "n=1"

\* C17: every resize of every run loads the source with the mode of its own
\* format: "" for a source of one frame, "n=-1" for a source of several
\* frames and an animated format, "n=1" for a source of several frames and
\* a static format.
C17_FrameLoadMode ==
    \A w \in Workers :
        /\ Len(run[w].load_opts) = Len(run[w].resized)
        /\ \A i \in 1..Len(run[w].load_opts) :
             run[w].load_opts[i] =
                FrameLoadMode(db.frames, run[w].resized[i].animated)

\* a run on a source of several frames has resized a static, an animated and
\* again a static format, each with its own mode
C17_Witness ==
    \E w \in Workers :
        /\ db.frames > 1
        /\ run[w].load_opts = <<"n=1", "n=-1", "n=1">>
        /\ run[w].outcome = "returned"

\* a run on a source of one frame has resized an animated format with ""
C17_SingleFrameWitness ==
    \E w \in Workers :
        /\ db.frames = 1
        /\ \E i \in 1..Len(run[w].load_opts) :
              run[w].resized[i].animated /\ run[w].load_opts[i] = ""

\* ensure_thumbnails(image_attachment) called on an instance whose fields
\* other than thumbnail_metadata were read before the stored row got its
\* present frame count: the instance has the frame count "read", the
\* stored row has "frames".
FieldInit ==
    \E c \in LiveWorkers : \E frames \in FrameCounts : \E read \in FrameCounts :
    \E m \in InitialMetadata(frames) :
        /\ db = [exists |-> TRUE, path_id |-> PathId,
                 original_width_px |-> OriginalWidthPx,
                 original_height_px |-> OriginalHeightPx,
                 frames |-> frames, thumbnail_metadata |-> m]
        /\ blob = {GetImageThumbnailPath(PathId, e) : e \in Range(m)}
        /\ uploads = [i \in 1..Len(Catalogue) |->
                        IF FormatKey(Catalogue[i]) \in {FormatKey(e) : e \in Range(m)}
                        THEN 1 ELSE 0]
        /\ abortedUploads = [i \in 1..Len(Catalogue) |-> 0]
        /\ lockHolder = NoWorker
        /\ deliveries = 0
        /\ lastClean = FALSE
        /\ failures = 0
        /\ lastAbort = [happened |-> FALSE, meta |-> << >>]
        /\ pc = [w \in Workers |-> IF w = c THEN "ensure" ELSE "idle"]
        /\ row = [w \in Workers |-> IF w = c THEN m ELSE << >>]
        /\ needed = [w \in Workers |-> << >>]
        /\ idx = [w \in Workers |-> 1]
        /\ written = [w \in Workers |-> 0]
        /\ txn = [w \in Workers |-> "none"]
        /\ run = [w \in Workers |->
                    IF w = c
                    THEN [NoRun EXCEPT
                            !.outcome = "running", !.row_found = "yes",
                            !.pre_meta = m, !.pre_blob = blob,
                            !.instance = [OtherFields(db) EXCEPT !.frames = read],
                            !.stored = OtherFields(db)]
                    ELSE NoRun]

\* the steps of ensure_thumbnails and of the write that follows it
Call(w) ==
    \/ ResolveMissing(w)
    \/ FetchOriginal(w)
    \/ ResizeNext(w)
    \/ Upload(w)
    \/ AppendMetadata(w)
    \/ HandleError(w)
    \/ LoopDone(w)
    \/ Save(w)
    \/ Commit(w)

FieldNext == \E w \in Workers : Call(w)

FieldSpec == FieldInit /\ [][FieldNext]_vars

\* C18: once a run has saved the row, every field of the stored row other
\* than thumbnail_metadata has the value it had in the store when the run
\* began, whatever value the instance of the run holds for it, and
\* thumbnail_metadata is the list of the instance.
C18_SaveWritesOnlyMetadata ==
    \A w \in Workers :
        (run[w].outcome = "returned" /\ run[w].saves = 1) =>
            /\ OtherFields(db) = run[w].stored
            /\ db.exists
            /\ run[w].post_meta = row[w]

\* a run has saved new entries from an instance whose frame count is not
\* the stored one, and the stored frame count is as it was
C18_Witness ==
    \E w \in Workers :
        /\ run[w].outcome = "returned" /\ run[w].saves = 1
        /\ run[w].ret > 0
        /\ run[w].instance.frames # run[w].stored.frames
        /\ db.frames = run[w].stored.frames
        /\ db.thumbnail_metadata = row[w]

C19_DeleteWitness ==
    \E w \in Workers :
        /\ run[w].outcome = "returned" /\ run[w].deletes = 1
        /\ run[w].ret = 0 /\ run[w].uploaded = << >> /\ ~db.exists
====
